---- MODULE Spec2Model ----
(***************************************************************************)
(* Model of the public API facade of mapbox-gl-draw (src/api.js).          *)
(*                                                                         *)
(* Every public call runs to completion on the calling thread, so each     *)
(* call is one atomic action.  The facade (api.js) is translated from the  *)
(* source; the collaborators it calls through ctx (the feature store, the  *)
(* mode controller, the feature models, string_sets_are_equal) are not     *)
(* part of src/ and are modelled from spec.md sections 3 and 4.            *)
(*                                                                         *)
(* Representation                                                          *)
(*   ids          integers 1..NumIds; the input id 0 is an absent (or      *)
(*                falsy) id, which `feature.id || hat()` replaces          *)
(*   coordinates  a sequence of coordinate tokens: a single-part geometry  *)
(*                has one token, a Multi* geometry one token per part      *)
(*   properties   0 is the empty mapping {}, 1 a non-empty mapping         *)
(*   selection    the set of selected ids.  api.js reads the order of the  *)
(*                selection only as getSelectedIds()[0], and only in       *)
(*                direct_select, where the selection has at most one id    *)
(*                (SingleTarget below)                                     *)
(***************************************************************************)
EXTENDS Integers, Sequences, FiniteSets, TLC

\* ---------------------------------------------------------------- bounds
NumIds == 3        \* size of the id universe
MaxFeatures == 2   \* longest collection passed to add / set
MaxIds == 2        \* longest id list passed to delete / changeMode / merge / split

\* ------------------------------------------------------------- constants
SIMPLE_SELECT == "simple_select"
DIRECT_SELECT == "direct_select"
DRAW_POINT == "draw_point"
modes == {SIMPLE_SELECT, DIRECT_SELECT, DRAW_POINT}

\* featureTypes (api.js 11-18): the six constructible geometry types
featureTypes == {"Point", "LineString", "Polygon",
                 "MultiPoint", "MultiLineString", "MultiPolygon"}

Ids == 1..NumIds

\* ------------------------------------------------------------ utilities
Range(s) == {s[i] : i \in 1..Len(s)}

SeqsUpTo(S, n) == UNION {[1..k -> S] : k \in 0..n}

Min(S) == CHOOSE x \in S : \A y \in S : x <= y

\* ------------------------------------------------------------ the state
VARIABLES
  features,      \* ctx.store: id -> feature model [type, coords, props]
  selected,      \* ctx.store: the set of selected ids
  mode,          \* ctx.events: the active mode
  batchOpen      \* ctx.store: a render batch is open (render() is held)

vars == <<features, selected, mode, batchOpen>>

\* The context a public call starts from: the state, and the record of what
\* the call has done so far to its collaborators:
\*   handlerCalls  the ctx.events.changeMode invocations
\*   renderReq     the number of ctx.store.render() calls
\*   renderFired   the number of render notifications that reached the renderer
\*   created       the payloads of ctx.map.fire(CREATE, ...)
\*   constructed   the ids api.add constructed a new feature model for
\*   coordWrites   the ids api.add called incomingCoords() on
Ctx == [features |-> features, selected |-> selected, mode |-> mode,
        batchOpen |-> batchOpen, handlerCalls |-> <<>>, renderReq |-> 0,
        renderFired |-> 0, created |-> <<>>, constructed |-> <<>>,
        coordWrites |-> <<>>]

\* the context the next call starts from, after a call that ended in c
NextCall(c) == [c EXCEPT !.handlerCalls = <<>>, !.renderReq = 0,
                         !.renderFired = 0, !.created = <<>>,
                         !.constructed = <<>>, !.coordWrites = <<>>]

\* modeOptions: featureIds is <<>> and featureId is 0 when the option is absent
NoOpts == [featureIds |-> <<>>, featureId |-> 0]

\* --------------------------------------------------------- feature store
\* store.get(id) for an id in the store; store_has(c, id) is
\* `store.get(id) !== undefined`
store_get(c, id) == c.features[id]

store_has(c, id) == id \in DOMAIN c.features

store_getAllIds(c) == DOMAIN c.features

store_getSelectedIds(c) == c.selected

\* store.getSelectedIds()[0]; 0 is undefined
firstSelectedId(c) == IF c.selected = {} THEN 0 ELSE Min(c.selected)

store_add(c, id, f) ==
  [c EXCEPT !.features = [i \in DOMAIN c.features \cup {id} |->
                            IF i = id THEN f ELSE c.features[i]]]

store_delete(c, ids) ==
  [c EXCEPT !.features = [i \in DOMAIN c.features \ ids |-> c.features[i]],
            !.selected = c.selected \ ids]

store_setSelected(c, ids) ==
  [c EXCEPT !.selected = Range(ids) \cap DOMAIN c.features]

store_render(c) ==
  [c EXCEPT !.renderReq = @ + 1,
            !.renderFired = IF c.batchOpen THEN @ ELSE @ + 1]

store_createRenderBatch(c) == [c EXCEPT !.batchOpen = TRUE]

renderBatch(c) == [c EXCEPT !.batchOpen = FALSE, !.renderFired = @ + 1]

stringSetsAreEqual(a, b) == Range(a) = b

\* hat(): a fresh id, different from every id in the store and from every
\* id the caller names; 0 when the universe has no such id left
hat(c, named) ==
  LET free == Ids \ (DOMAIN c.features \cup named)
  IN  IF free = {} THEN 0 ELSE Min(free)

\* ------------------------------------------------------- mode controller
\* ctx.events.changeMode: the mode-change handler.  The new mode starts
\* with the selection its options name: the preselected ids of
\* simple_select, the edited feature of direct_select, nothing for a
\* drawing mode.
events_changeMode(c, m, opts) ==
  LET c1 == [c EXCEPT !.handlerCalls = Append(@, <<m, opts>>), !.mode = m]
  IN  IF m = SIMPLE_SELECT THEN store_setSelected(c1, opts.featureIds)
      ELSE IF m = DIRECT_SELECT THEN store_setSelected(c1, <<opts.featureId>>)
      ELSE store_setSelected(c1, <<>>)

api_getMode(c) == c.mode

\* ------------------------------------------------------------ public API
Thrown(c) == [c |-> c, status |-> "throw", ids |-> <<>>]

Returned(c, ids) == [c |-> c, status |-> "ok", ids |-> ids]

\* the model has no unused id left for hat(): the call is outside the bounds
NoHat(c) == [c |-> c, status |-> "nohat", ids |-> <<>>]

\* ids the caller names in a geojson input
NamedIds(fs) == {fs[i].id : i \in 1..Len(fs)} \ {0}

\* new model(ctx, feature) followed by ctx.store.add(internalFeature)
addNewModel(c, id, feature) ==
  [store_add(c, id, [type |-> feature.geom, coords |-> feature.coords,
                     props |-> feature.props])
     EXCEPT !.constructed = Append(@, id)]

\* the swap of api.add that leaves the stored properties as they are
updateInPlace_keepsProps(c, id, feature) ==
  LET internalFeature == store_get(c, id)
  IN  IF internalFeature.coords # feature.coords
      THEN [store_add(c, id, [internalFeature EXCEPT !.coords = feature.coords])
              EXCEPT !.coordWrites = Append(@, id)]
      ELSE c

\* the swap of api.add that writes the incoming coordinates without
\* comparing them with the stored ones
updateInPlace_alwaysWrites(c, id, feature) ==
  LET internalFeature == store_get(c, id)
      withProps == [internalFeature EXCEPT !.props = feature.props]
  IN  [store_add(c, id, [withProps EXCEPT !.coords = feature.coords])
         EXCEPT !.coordWrites = Append(@, id)]

\* the swap of api.add 84-88: the stored feature keeps its model, takes the
\* incoming properties, and the incoming coordinates when they differ
updateInPlace(c, id, feature) ==
  LET internalFeature == store_get(c, id)
      withProps == [internalFeature EXCEPT !.props = feature.props]
  IN  IF internalFeature.coords # feature.coords
      THEN [store_add(c, id, [withProps EXCEPT !.coords = feature.coords])
              EXCEPT !.coordWrites = Append(@, id)]
      ELSE store_add(c, id, withProps)

RECURSIVE AddLoop(_, _, _, _)
\* featureCollection.features.map(...) of api.add, from position i on,
\* followed by ctx.store.render() and the return of the ids
AddLoop(c, fs, i, ids) ==
  IF i > Len(fs) THEN Returned(store_render(c), ids)
  ELSE
    LET feature == fs[i]
        id == IF feature.id # 0 THEN feature.id ELSE hat(c, NamedIds(fs))
    IN  IF id = 0 THEN NoHat(c)
        ELSE IF feature.geom = "null" THEN Thrown(c)
        ELSE IF ~store_has(c, id) \/ store_get(c, id).type # feature.geom
        THEN IF feature.geom \notin featureTypes THEN Thrown(c)
             ELSE AddLoop(addNewModel(c, id, feature), fs, i + 1, Append(ids, id))
        ELSE AddLoop(updateInPlace(c, id, feature), fs, i + 1, Append(ids, id))

api_add(c, geojson) ==
  IF ~geojson.hintOk THEN Thrown(c)
  ELSE AddLoop(c, geojson.features, 1, <<>>)

\* api.delete without the escape from direct_select
api_delete_neverEscapes(c, featureIds) == store_render(store_delete(c, featureIds))

api_delete(c, featureIds) ==
  LET c1 == store_delete(c, featureIds)
  IN  IF api_getMode(c1) = DIRECT_SELECT /\ store_getSelectedIds(c1) = {}
      THEN events_changeMode(c1, SIMPLE_SELECT, NoOpts)
      ELSE store_render(c1)

api_deleteAll(c) ==
  LET c1 == store_delete(c, store_getAllIds(c))
  IN  IF api_getMode(c1) = DIRECT_SELECT
      THEN events_changeMode(c1, SIMPLE_SELECT, NoOpts)
      ELSE store_render(c1)

\* api.set that adds the collection and deletes nothing
api_set_keepsOld(c, featureCollection) ==
  IF featureCollection.type # "FeatureCollection" THEN Thrown(c)
  ELSE LET added == api_add(store_createRenderBatch(c), featureCollection)
       IN  IF added.status # "ok" THEN added
           ELSE Returned(renderBatch(added.c), added.ids)

\* api.set that deletes every previously stored id, also those set again
api_set_deletesAllOld(c, featureCollection) ==
  IF featureCollection.type # "FeatureCollection" THEN Thrown(c)
  ELSE LET c1 == store_createRenderBatch(c)
           toDelete == store_getAllIds(c1)
           added == api_add(c1, featureCollection)
       IN  IF added.status # "ok" THEN added
           ELSE Returned(renderBatch(IF toDelete # {} THEN api_delete(added.c, toDelete)
                                     ELSE added.c), added.ids)

\* api.set without the render batch
api_set_unbatched(c, featureCollection) ==
  IF featureCollection.type # "FeatureCollection" THEN Thrown(c)
  ELSE LET toDelete == store_getAllIds(c)
           added == api_add(c, featureCollection)
       IN  IF added.status # "ok" THEN added
           ELSE LET rest == toDelete \ Range(added.ids)
                IN  Returned(IF rest # {} THEN api_delete(added.c, rest) ELSE added.c,
                             added.ids)

api_set(c, featureCollection) ==
  IF featureCollection.type # "FeatureCollection" THEN Thrown(c)
  ELSE
    LET c1 == store_createRenderBatch(c)
        toDelete == store_getAllIds(c1)
        added == api_add(c1, featureCollection)
    IN  IF added.status # "ok" THEN added
        ELSE LET newIds == added.ids
                 rest == toDelete \ Range(newIds)
                 c2 == IF rest # {} THEN api_delete(added.c, rest) ELSE added.c
             IN  Returned(renderBatch(c2), newIds)

\* api.changeMode that writes the requested ids into the selection as they are
api_changeMode_unfiltered(c, m, modeOptions) ==
  IF m = SIMPLE_SELECT /\ api_getMode(c) = SIMPLE_SELECT
  THEN IF stringSetsAreEqual(modeOptions.featureIds, store_getSelectedIds(c))
       THEN c
       ELSE store_render([c EXCEPT !.selected = Range(modeOptions.featureIds)])
  ELSE events_changeMode(c, m, modeOptions)

\* api.changeMode without the check for an identical selection
api_changeMode_alwaysReselects(c, m, modeOptions) ==
  IF m = SIMPLE_SELECT /\ api_getMode(c) = SIMPLE_SELECT
  THEN store_render(store_setSelected(c, modeOptions.featureIds))
  ELSE events_changeMode(c, m, modeOptions)

\* api.changeMode that restarts simple_select to change the selection
api_changeMode_restartsMode(c, m, modeOptions) ==
  IF /\ m = SIMPLE_SELECT
     /\ api_getMode(c) = SIMPLE_SELECT
     /\ stringSetsAreEqual(modeOptions.featureIds, store_getSelectedIds(c))
  THEN c
  ELSE events_changeMode(c, m, modeOptions)

\* api.changeMode without the check for the same direct_select target
api_changeMode_retargets(c, m, modeOptions) ==
  IF m = SIMPLE_SELECT /\ api_getMode(c) = SIMPLE_SELECT
  THEN IF stringSetsAreEqual(modeOptions.featureIds, store_getSelectedIds(c))
       THEN c
       ELSE store_render(store_setSelected(c, modeOptions.featureIds))
  ELSE events_changeMode(c, m, modeOptions)

\* api.changeMode that treats every direct_select request made in
\* direct_select as a request for the current target
api_changeMode_ignoresTarget(c, m, modeOptions) ==
  IF m = SIMPLE_SELECT /\ api_getMode(c) = SIMPLE_SELECT
  THEN IF stringSetsAreEqual(modeOptions.featureIds, store_getSelectedIds(c))
       THEN c
       ELSE store_render(store_setSelected(c, modeOptions.featureIds))
  ELSE IF m = DIRECT_SELECT /\ api_getMode(c) = DIRECT_SELECT
  THEN c
  ELSE events_changeMode(c, m, modeOptions)

\* api.changeMode that requests a render also for an identical selection
api_changeMode_rerenders(c, m, modeOptions) ==
  IF m = SIMPLE_SELECT /\ api_getMode(c) = SIMPLE_SELECT
  THEN IF stringSetsAreEqual(modeOptions.featureIds, store_getSelectedIds(c))
       THEN store_render(c)
       ELSE store_render(store_setSelected(c, modeOptions.featureIds))
  ELSE IF /\ m = DIRECT_SELECT
          /\ api_getMode(c) = DIRECT_SELECT
          /\ modeOptions.featureId = firstSelectedId(c)
  THEN c
  ELSE events_changeMode(c, m, modeOptions)

api_changeMode(c, m, modeOptions) ==
  IF m = SIMPLE_SELECT /\ api_getMode(c) = SIMPLE_SELECT
  THEN IF stringSetsAreEqual(modeOptions.featureIds, store_getSelectedIds(c))
       THEN c
       ELSE store_render(store_setSelected(c, modeOptions.featureIds))
  ELSE IF /\ m = DIRECT_SELECT
          /\ api_getMode(c) = DIRECT_SELECT
          /\ modeOptions.featureId = firstSelectedId(c)
  THEN c
  ELSE events_changeMode(c, m, modeOptions)

\* instanceof MultiFeature
IsMulti(t) == t \in {"MultiPoint", "MultiLineString", "MultiPolygon"}

\* this.type.replace('Multi', '')
BaseType(t) ==
  IF t = "MultiPoint" THEN "Point"
  ELSE IF t = "MultiLineString" THEN "LineString"
  ELSE IF t = "MultiPolygon" THEN "Polygon"
  ELSE t

\* feature.toGeoJSON()
toGeoJSON(id, f) == [id |-> id, type |-> f.type, coords |-> f.coords, props |-> f.props]

\* api.get: the GeoJSON form of the feature in a one-element sequence, the
\* empty sequence for the undefined of an id that is not in the store
api_get(c, id) ==
  IF store_has(c, id) THEN <<toGeoJSON(id, store_get(c, id))>> ELSE <<>>

RECURSIVE MergeCoordinates_reversed(_, _, _)
\* the forEach of api.mergeSelectedFeatures putting each feature's
\* coordinates in front of those collected so far
MergeCoordinates_reversed(c, featureIds, featureType) ==
  IF featureIds = <<>> THEN <<>>
  ELSE LET feature == store_get(c, Head(featureIds))
           rest == MergeCoordinates_reversed(c, Tail(featureIds), featureType)
       IN  IF feature.type # featureType THEN rest ELSE rest \o feature.coords

RECURSIVE MergeCoordinates(_, _, _)
\* features.forEach(...) of api.mergeSelectedFeatures: the coordinates of
\* the features whose type is featureType, in input order
MergeCoordinates(c, featureIds, featureType) ==
  IF featureIds = <<>> THEN <<>>
  ELSE LET feature == store_get(c, Head(featureIds))
           rest == MergeCoordinates(c, Tail(featureIds), featureType)
       IN  IF feature.type # featureType THEN rest ELSE feature.coords \o rest

api_mergeSelectedFeatures(c, featureIds) ==
  IF Len(featureIds) < 2 THEN Returned(c, <<>>)
  ELSE IF \E i \in 1..Len(featureIds) : ~store_has(c, featureIds[i]) THEN Thrown(c)
  ELSE
    LET featureType == store_get(c, featureIds[1]).type
        coordinates == MergeCoordinates(c, featureIds, featureType)
        multiType == "Multi" \o featureType
        id == hat(c, {})
        multiFeature == [type |-> multiType, coords |-> coordinates, props |-> 0]
    IN  IF multiType \notin featureTypes THEN Thrown(c)
        ELSE IF id = 0 THEN NoHat(c)
        ELSE LET c1 == store_add(c, id, multiFeature)
                 c2 == store_delete(c1, Range(featureIds))
             IN  Returned([c2 EXCEPT !.created =
                             Append(@, <<toGeoJSON(id, multiFeature)>>)], <<>>)

RECURSIVE SplitParts(_, _, _, _)
\* feature.getFeatures().forEach(...): add part k, k+1, ... of the feature
\* to the store; r carries the store, the created list, the part ids and
\* the ids in use when the call started, which no part id repeats
SplitParts(r, feature, k, subIds) ==
  IF k > Len(feature.coords) THEN [r EXCEPT !.subIds = subIds]
  ELSE LET sid == hat(r.c, r.inUse)
           subFeature == [type |-> BaseType(feature.type),
                          coords |-> <<feature.coords[k]>>, props |-> 0]
       IN  IF sid = 0 THEN [r EXCEPT !.status = "nohat"]
           ELSE SplitParts([r EXCEPT !.c = store_add(r.c, sid, subFeature),
                                     !.createdFeatures =
                                        Append(@, toGeoJSON(sid, subFeature))],
                           feature, k + 1, Append(subIds, sid))

RECURSIVE SplitLoop_keepsComposite(_, _, _, _, _)
\* the loop of api.splitSelectedFeatures without ctx.store.delete(feature.id)
SplitLoop_keepsComposite(r, c0, featureIds, i, done) ==
  IF i > Len(featureIds) \/ r.status # "ok" THEN r
  ELSE
    LET id == featureIds[i]
    IN  IF ~store_has(c0, id) \/ ~IsMulti(store_get(c0, id).type)
        THEN SplitLoop_keepsComposite(r, c0, featureIds, i + 1, done)
        ELSE LET r1 == SplitParts(r, store_get(c0, id), 1, <<>>)
             IN  IF r1.status # "ok" THEN r1
                 ELSE SplitLoop_keepsComposite(r1, c0, featureIds, i + 1, done)

RECURSIVE SplitLoop(_, _, _, _, _)
\* selectedFeatures.forEach(...) of api.splitSelectedFeatures; c0 is the
\* store when the call started (selectedFeatures is read before the loop),
\* done maps a composite already processed in this call to its part ids
SplitLoop(r, c0, featureIds, i, done) ==
  IF i > Len(featureIds) \/ r.status # "ok" THEN r
  ELSE
    LET id == featureIds[i]
    IN  IF ~store_has(c0, id) \/ ~IsMulti(store_get(c0, id).type)
        THEN SplitLoop(r, c0, featureIds, i + 1, done)
        ELSE IF id \in DOMAIN done
        THEN LET feature == store_get(c0, id)
                 again == [k \in 1..Len(done[id]) |->
                             toGeoJSON(done[id][k],
                                       [type |-> BaseType(feature.type),
                                        coords |-> <<feature.coords[k]>>,
                                        props |-> 0])]
             IN  SplitLoop([r EXCEPT !.createdFeatures = @ \o again],
                           c0, featureIds, i + 1, done)
        ELSE LET r1 == SplitParts(r, store_get(c0, id), 1, <<>>)
                 r2 == [r1 EXCEPT !.c = store_delete(r1.c, {id})]
             IN  IF r1.status # "ok" THEN r1
                 ELSE SplitLoop(r2, c0, featureIds, i + 1,
                                [j \in DOMAIN done \cup {id} |->
                                   IF j = id THEN r1.subIds ELSE done[j]])

\* api.splitSelectedFeatures that fires CREATE only when it created features
api_splitSelectedFeatures_silentWhenEmpty(c, featureIds) ==
  LET r == SplitLoop([c |-> c, status |-> "ok", ids |-> <<>>,
                      createdFeatures |-> <<>>, subIds |-> <<>>,
                      inUse |-> store_getAllIds(c)],
                     c, featureIds, 1, <<>>)
  IN  IF r.status # "ok" THEN NoHat(c)
      ELSE IF r.createdFeatures = <<>> THEN Returned(r.c, <<>>)
      ELSE Returned([r.c EXCEPT !.created = Append(@, r.createdFeatures)], <<>>)

api_splitSelectedFeatures(c, featureIds) ==
  LET r == SplitLoop([c |-> c, status |-> "ok", ids |-> <<>>,
                      createdFeatures |-> <<>>, subIds |-> <<>>,
                      inUse |-> store_getAllIds(c)],
                     c, featureIds, 1, <<>>)
  IN  IF r.status # "ok" THEN NoHat(c)
      ELSE Returned([r.c EXCEPT !.created = Append(@, r.createdFeatures)], <<>>)

\* ---------------------------------------------------------------- inputs
\* the well-formed features a caller passes, without their id
Templates ==
  { [geom |-> "Point", coords |-> <<1>>, props |-> 0] }

\* features that pass geojsonhint and api.add rejects
BadFeatures ==
  { [id |-> 0, geom |-> g, coords |-> <<>>, props |-> 0] :
      g \in {"null", "GeometryCollection"} }

\* the ids a caller writes into a feature (the other ids of a store are
\* generated ones); 0 is a feature without id
ClientIds == {1}

InputFeatures ==
  { [id |-> i, geom |-> t.geom, coords |-> t.coords, props |-> t.props] :
      i \in {0} \cup ClientIds, t \in Templates } \cup BadFeatures

FeatureCollections ==
  { [type |-> "FeatureCollection", hintOk |-> TRUE, features |-> fs] :
      fs \in SeqsUpTo(InputFeatures, MaxFeatures) }

\* a single Feature, which geojson-normalize wraps into a collection
SingleFeatures ==
  { [type |-> "Feature", hintOk |-> TRUE, features |-> <<f>>] :
      f \in {g \in InputFeatures : g.id = 0} }

\* an input geojsonhint reports an error for
Malformed == [type |-> "FeatureCollection", hintOk |-> FALSE, features |-> <<>>]

GeoJSONInputs == FeatureCollections \cup SingleFeatures \cup {Malformed}

IdLists == SeqsUpTo(Ids, MaxIds)

\* the ids of an id list, for the calls the order and repetition of the
\* list make no difference to (store.delete)
IdSets == {S \in SUBSET Ids : Cardinality(S) <= MaxIds}

\* --------------------------------------------------------------- actions
Init ==
  /\ features = <<>>
  /\ selected = {}
  /\ mode = SIMPLE_SELECT
  /\ batchOpen = FALSE

\* a call that ended in context c has run to completion
Commit(c) ==
  /\ features' = c.features
  /\ selected' = c.selected
  /\ mode' = c.mode
  /\ batchOpen' = c.batchOpen

\* a call with outcome r; r.status = "nohat" is a call the id universe is
\* too small for
Done(r) == r.status # "nohat" /\ Commit(r.c)

Add == \E g \in GeoJSONInputs : Done(api_add(Ctx, g))

Set == \E g \in GeoJSONInputs : Done(api_set(Ctx, g))

Delete == \E ids \in IdSets : Commit(api_delete(Ctx, ids))

DeleteAll == Commit(api_deleteAll(Ctx))

\* the modeOptions a caller passes with each mode
SimpleSelectOpts == {[NoOpts EXCEPT !.featureIds = ids] : ids \in IdLists}

DirectSelectOpts == {[NoOpts EXCEPT !.featureId = f] : f \in DOMAIN features}

ChangeMode ==
  \/ \E o \in SimpleSelectOpts : Commit(api_changeMode(Ctx, SIMPLE_SELECT, o))
  \/ \E o \in DirectSelectOpts : Commit(api_changeMode(Ctx, DIRECT_SELECT, o))
  \/ Commit(api_changeMode(Ctx, DRAW_POINT, NoOpts))

MergeSelectedFeatures ==
  \E ids \in IdLists : Done(api_mergeSelectedFeatures(Ctx, ids))

SplitSelectedFeatures ==
  \E ids \in IdLists : Done(api_splitSelectedFeatures(Ctx, ids))

Next ==
  \/ Add
  \/ Set
  \/ Delete
  \/ DeleteAll
  \/ ChangeMode
  \/ MergeSelectedFeatures
  \/ SplitSelectedFeatures

Spec == Init /\ [][Next]_vars

\* in direct_select the selection has at most one id, so that
\* getSelectedIds()[0] is the whole selection where api.js reads it
SingleTarget == mode = DIRECT_SELECT => Cardinality(selected) <= 1

\* ------------------------------------------- add and get, with geometry
\* well-formed features of two types, two coordinate values and two
\* property values
RichTemplates ==
  { [geom |-> "Point", coords |-> <<1>>, props |-> 0],
    [geom |-> "Point", coords |-> <<1>>, props |-> 1],
    [geom |-> "Point", coords |-> <<2>>, props |-> 1],
    [geom |-> "LineString", coords |-> <<1>>, props |-> 0] }

RichFeatures ==
  { [id |-> i, geom |-> t.geom, coords |-> t.coords, props |-> t.props] :
      i \in {0} \cup ClientIds, t \in RichTemplates }

RichCollections ==
  { [type |-> "FeatureCollection", hintOk |-> TRUE, features |-> fs] :
      fs \in SeqsUpTo(RichFeatures \cup BadFeatures, MaxFeatures) }

AddRich == \E g \in RichCollections : Done(api_add(Ctx, g))

NextAdd ==
  \/ AddRich
  \/ Delete

SpecAdd == Init /\ [][NextAdd]_vars

\* --------------------------------------------- merge and split, with geometry
\* Point features of two coordinate values
MergeTemplates ==
  { [geom |-> "Point", coords |-> <<1>>, props |-> 0],
    [geom |-> "Point", coords |-> <<2>>, props |-> 0] }

\* a single Feature without id, of either coordinate value
MergeInputs ==
  { [type |-> "Feature", hintOk |-> TRUE,
     features |-> << [id |-> 0, geom |-> t.geom, coords |-> t.coords,
                      props |-> t.props] >>] : t \in MergeTemplates }

AddPoint == \E g \in MergeInputs : Done(api_add(Ctx, g))

NextMerge ==
  \/ AddPoint
  \/ MergeSelectedFeatures
  \/ SplitSelectedFeatures

SpecMerge == Init /\ [][NextMerge]_vars

\* ================================================================ claims
\* Each claim about the effect of a call is stated for every reachable
\* state and every input of the call: the call's outcome is the value of
\* the operator that models it, applied to the context of that state.

\* ---------------------------------------------------------------- C1
\* C1: every id of the selection is the id of a feature in the store, in
\* every state a sequence of public calls can reach.
C1_SelectionSubset == selected \subseteq DOMAIN features

\* a state with a selected feature and a delete that removes it from the
\* store and from the selection together
C1_Witness ==
  /\ selected # {}
  /\ \E ids \in IdSets :
       LET c == api_delete(Ctx, ids)
       IN  /\ ids \cap selected # {}
           /\ c.selected = selected \ ids
           /\ c.selected \subseteq DOMAIN c.features

\* ---------------------------------------------------------------- C2
\* the outcome c of a delete or deleteAll: a forced change to simple_select
\* when the mode was direct_select and the selection ends empty, one render
\* request and the same mode otherwise; never both
C2_Escapes(c) ==
  IF mode = DIRECT_SELECT /\ c.selected = {}
  THEN /\ c.handlerCalls = << <<SIMPLE_SELECT, NoOpts>> >>
       /\ c.mode = SIMPLE_SELECT
       /\ c.renderReq = 0
  ELSE /\ c.handlerCalls = <<>>
       /\ c.mode = mode
       /\ c.renderReq = 1

\* C2: delete(ids) and deleteAll() invoke the mode-change handler with
\* simple_select exactly when the mode is direct_select and the call leaves
\* the selection empty; otherwise they leave the mode alone and request a
\* render; exactly one of the two happens.
C2_ModeEscape ==
  /\ \A ids \in IdSets : C2_Escapes(api_delete(Ctx, ids))
  /\ C2_Escapes(api_deleteAll(Ctx))

\* direct_select with a live target, some delete that escapes and some
\* delete that does not
C2_Witness ==
  /\ mode = DIRECT_SELECT
  /\ selected # {}
  /\ \E ids \in IdSets : api_delete(Ctx, ids).handlerCalls # <<>>
  /\ \E ids \in IdSets :
       LET c == api_delete(Ctx, ids)
       IN  c.features # features /\ c.renderReq = 1 /\ c.mode = DIRECT_SELECT

\* ---------------------------------------------------------------- C3
\* C3: after set(X) returns, the ids in the store are exactly the ids it
\* returned, one per feature of X.
C3_SetReplacesAll ==
  \A g \in GeoJSONInputs :
    LET r == api_set(Ctx, g)
    IN  r.status = "ok" =>
          /\ DOMAIN r.c.features = Range(r.ids)
          /\ Len(r.ids) = Len(g.features)

\* a set that returns, adds a feature and deletes a previously stored one
C3_Witness ==
  \E g \in GeoJSONInputs :
    LET r == api_set(Ctx, g)
    IN  /\ r.status = "ok"
        /\ r.ids # <<>>
        /\ DOMAIN features \ Range(r.ids) # {}
        /\ Range(r.ids) \ DOMAIN features # {}

\* ---------------------------------------------------------------- C4
\* set(g) twice in succession: same store contents, same returned ids
C4_SameTwice(g) ==
  LET r1 == api_set(Ctx, g)
      r2 == api_set(NextCall(r1.c), g)
  IN  (r1.status = "ok" /\ r2.status = "ok") =>
        (r2.c.features = r1.c.features /\ r2.ids = r1.ids)

\* C4 as claimed: set(X) twice yields the same store contents and the same
\* id list, for every FeatureCollection X, also one whose features carry
\* no id.
C4_SetIdempotent == \A g \in FeatureCollections : C4_SameTwice(g)

\* every feature of the collection carries an id
AllCarryIds(g) == \A i \in 1..Len(g.features) : g.features[i].id # 0

\* C4 amended: set(X) twice yields the same store contents and the same id
\* list, for every FeatureCollection X whose features all carry an id.
C4_SetIdempotentWithIds ==
  \A g \in FeatureCollections : AllCarryIds(g) => C4_SameTwice(g)

\* a non-empty collection with ids, set twice over a store that held other
\* features
C4_Witness ==
  \E g \in FeatureCollections :
    LET r1 == api_set(Ctx, g)
        r2 == api_set(NextCall(r1.c), g)
    IN  /\ AllCarryIds(g)
        /\ g.features # <<>>
        /\ r1.status = "ok"
        /\ r2.status = "ok"
        /\ DOMAIN features \ DOMAIN r1.c.features # {}
        /\ DOMAIN r1.c.features \ DOMAIN features # {}
        /\ r2.c.features = r1.c.features

\* ---------------------------------------------------------------- C5
\* the store is what it was before the call
StoreUntouched(c) == c.features = features /\ c.selected = selected

\* C5: an add or set that fails with an ingestion error leaves the feature
\* mapping and the selection exactly as they were before the call.
C5_AllOrNothing ==
  \A g \in GeoJSONInputs :
    /\ api_add(Ctx, g).status = "throw" => StoreUntouched(api_add(Ctx, g).c)
    /\ api_set(Ctx, g).status = "throw" => StoreUntouched(api_set(Ctx, g).c)

\* ---------------------------------------------------------------- C6
\* C6: a set(X) that returns produces exactly one render notification.
C6_SetRendersOnce ==
  \A g \in GeoJSONInputs :
    LET r == api_set(Ctx, g)
    IN  r.status = "ok" => r.c.renderFired = 1

\* a set whose inner add and inner delete both request a render
C6_Witness ==
  \E g \in GeoJSONInputs :
    LET r == api_set(Ctx, g)
    IN  r.status = "ok" /\ r.c.renderReq = 2 /\ r.c.renderFired = 1

\* ---------------------------------------------------------------- C7
\* C7: between public calls no render batch is open.
C7_NoBatchAtRest == batchOpen = FALSE

\* ---------------------------------------------------------------- C8
\* C8: in simple_select, changeMode(simple_select, {featureIds: S}) with S
\* equal to the selection as a set changes nothing: no handler call, no
\* render request, same selection, features and mode.
C8_ReselectIsNoOp ==
  \A o \in SimpleSelectOpts :
    (mode = SIMPLE_SELECT /\ Range(o.featureIds) = selected) =>
      api_changeMode(Ctx, SIMPLE_SELECT, o) = Ctx

\* simple_select with two selected features, re-selected in either order
C8_Witness ==
  /\ mode = SIMPLE_SELECT
  /\ Cardinality(selected) >= 2
  /\ \E o, p \in SimpleSelectOpts :
       /\ Range(o.featureIds) = selected
       /\ Range(p.featureIds) = selected
       /\ o.featureIds # p.featureIds
       /\ api_changeMode(Ctx, SIMPLE_SELECT, p) = Ctx
       /\ api_changeMode(Ctx, SIMPLE_SELECT, o) = Ctx

\* ---------------------------------------------------------------- C9
\* C9: in simple_select, changeMode(simple_select, {featureIds: S}) with S
\* different from the selection invokes no handler and keeps the mode; the
\* selection becomes the ids of S that are in the store, and exactly one
\* render is requested.
C9_SelectionChangedInPlace ==
  \A o \in SimpleSelectOpts :
    (mode = SIMPLE_SELECT /\ Range(o.featureIds) # selected) =>
      LET c == api_changeMode(Ctx, SIMPLE_SELECT, o)
      IN  /\ c.handlerCalls = <<>>
          /\ c.mode = SIMPLE_SELECT
          /\ c.selected = Range(o.featureIds) \cap DOMAIN features
          /\ c.renderReq = 1
          /\ c.features = features

\* a request that changes the selection and names an id not in the store
C9_Witness ==
  /\ mode = SIMPLE_SELECT
  /\ \E o \in SimpleSelectOpts :
       LET c == api_changeMode(Ctx, SIMPLE_SELECT, o)
       IN  /\ Range(o.featureIds) # selected
           /\ Range(o.featureIds) \ DOMAIN features # {}
           /\ c.selected # selected
           /\ c.selected # {}
           /\ c.renderReq = 1

\* --------------------------------------------------------------- C10
\* C10: in direct_select, changeMode(direct_select, {featureId: f}) with f
\* the first selected id changes nothing: no handler call, no render
\* request, same selection, features and mode.
C10_SameTargetIsNoOp ==
  \A o \in DirectSelectOpts :
    (mode = DIRECT_SELECT /\ selected # {} /\ o.featureId = firstSelectedId(Ctx)) =>
      api_changeMode(Ctx, DIRECT_SELECT, o) = Ctx

\* direct_select on a live target, requested again
C10_Witness ==
  /\ mode = DIRECT_SELECT
  /\ selected # {}
  /\ \E o \in DirectSelectOpts :
       /\ o.featureId = firstSelectedId(Ctx)
       /\ api_changeMode(Ctx, DIRECT_SELECT, o) = Ctx

\* --------------------------------------------------------------- C11
\* the three guards of api.changeMode: a simple_select request made in
\* simple_select, and a direct_select request for the current target made
\* in direct_select
C11_Guarded(m, o) ==
  \/ m = SIMPLE_SELECT /\ mode = SIMPLE_SELECT
  \/ m = DIRECT_SELECT /\ mode = DIRECT_SELECT /\ o.featureId = firstSelectedId(Ctx)

\* the requests changeMode is called with
C11_Requests ==
  ({SIMPLE_SELECT} \X SimpleSelectOpts) \cup ({DIRECT_SELECT} \X DirectSelectOpts)
    \cup ({DRAW_POINT} \X {NoOpts})

\* C11: every changeMode(mode, modeOptions) request that no guard covers
\* invokes the mode-change handler exactly once, with the requested mode and
\* options, and getMode() then returns the requested mode; the active mode
\* is always one of the modes.
C11_FullTransition ==
  /\ mode \in modes
  /\ \A rq \in C11_Requests :
       ~C11_Guarded(rq[1], rq[2]) =>
         LET c == api_changeMode(Ctx, rq[1], rq[2])
         IN  /\ c.handlerCalls = << <<rq[1], rq[2]>> >>
             /\ api_getMode(c) = rq[1]

\* direct_select on one target, asked to move to another live target
C11_Witness ==
  /\ mode = DIRECT_SELECT
  /\ selected # {}
  /\ \E o \in DirectSelectOpts :
       /\ o.featureId # firstSelectedId(Ctx)
       /\ api_changeMode(Ctx, DIRECT_SELECT, o).handlerCalls
            = << <<DIRECT_SELECT, o>> >>
       /\ api_changeMode(Ctx, DIRECT_SELECT, o).selected = {o.featureId}


\* --------------------------------------------------------------- C13
\* the positions of an id list that name a feature of the store
C13_LivePositions(ids) == {i \in DOMAIN ids : ids[i] \in DOMAIN features}

\* C13: mergeSelectedFeatures(ids) with fewer than two ids, or with fewer
\* than two ids that resolve to live features, raises no exception, leaves
\* features and selection unchanged and emits no creation notification.
C13_MergeArityNoOp ==
  \A ids \in IdLists :
    (Len(ids) < 2 \/ Cardinality(C13_LivePositions(ids)) < 2) =>
      LET r == api_mergeSelectedFeatures(Ctx, ids)
      IN  /\ r.status = "ok"
          /\ r.c.features = features
          /\ r.c.selected = selected
          /\ r.c.created = <<>>


\* --------------------------------------------------------------- C19
\* C19: whenever the mode is direct_select the selection is not empty and
\* the selected target is a feature of the store, after any sequence of
\* add, set, delete, deleteAll, changeMode, mergeSelectedFeatures and
\* splitSelectedFeatures.
C19_DirectSelectHasTarget ==
  mode = DIRECT_SELECT => (selected # {} /\ firstSelectedId(Ctx) \in DOMAIN features)


\* --------------------------------------------------------------- C20
\* changeMode(simple_select, o) called twice in a row: the second call
\* changes nothing and requests no render
C20_RepeatIsNoOp(o) ==
  LET c1 == NextCall(api_changeMode(Ctx, SIMPLE_SELECT, o))
  IN  api_changeMode(c1, SIMPLE_SELECT, o) = c1

\* C20 as stated: in simple_select, for any id list S, also one naming ids
\* that are not in the store, an immediate repeat of
\* changeMode(simple_select, {featureIds: S}) is a no-op.
C20_ReselectIdempotent ==
  mode = SIMPLE_SELECT => \A o \in SimpleSelectOpts : C20_RepeatIsNoOp(o)

\* C20, amended: in simple_select, for any id list S whose ids all exist in
\* the store, an immediate repeat of changeMode(simple_select,
\* {featureIds: S}) changes neither selection nor mode and requests no
\* render.
C20_ReselectIdempotentLive ==
  mode = SIMPLE_SELECT =>
    \A o \in SimpleSelectOpts :
      Range(o.featureIds) \subseteq DOMAIN features => C20_RepeatIsNoOp(o)

\* a first call that changes the selection to live ids, then the repeat
C20_Witness ==
  /\ mode = SIMPLE_SELECT
  /\ \E o \in SimpleSelectOpts :
       /\ Range(o.featureIds) \subseteq DOMAIN features
       /\ Range(o.featureIds) # selected
       /\ Range(o.featureIds) # {}
       /\ api_changeMode(Ctx, SIMPLE_SELECT, o).renderReq = 1
       /\ C20_RepeatIsNoOp(o)


\* --------------------------------------------------------------- C17
\* the well-formed collections: every feature has a supported geometry
C17_WellFormed == {g \in RichCollections :
                     \A i \in DOMAIN g.features : g.features[i] \in RichFeatures}

\* add(g) returns one id per feature, in input order, the client's id where
\* the feature has one and an unused id otherwise, and get() of each
\* returned id is the input feature under that id
C17_RoundTrip(g) ==
  LET fs == g.features
      r == api_add(Ctx, g)
  IN  r.status # "nohat" =>
        /\ r.status = "ok"
        /\ Len(r.ids) = Len(fs)
        /\ \A i \in DOMAIN fs :
             /\ fs[i].id # 0 => r.ids[i] = fs[i].id
             /\ fs[i].id = 0 =>
                  /\ r.ids[i] \notin DOMAIN features
                  /\ \A j \in DOMAIN fs : j # i => r.ids[j] # r.ids[i]
             /\ api_get(r.c, r.ids[i]) =
                  << [id |-> r.ids[i], type |-> fs[i].geom,
                      coords |-> fs[i].coords, props |-> fs[i].props] >>

C17_DistinctIds(g) ==
  \A i, j \in DOMAIN g.features :
    (i # j /\ g.features[i].id # 0) => g.features[i].id # g.features[j].id

C18_Resolved(c, id, f) ==
  IF id \in DOMAIN features /\ features[id].type = f.geom
  THEN /\ id \notin Range(c.constructed)
       /\ c.features[id].type = features[id].type
       /\ c.features[id].props = f.props
       /\ c.features[id].coords = f.coords
       /\ id \in Range(c.coordWrites) <=> features[id].coords # f.coords
  ELSE /\ id \in Range(c.constructed)
       /\ id \notin Range(c.coordWrites)
       /\ c.features[id] = [type |-> f.geom, coords |-> f.coords, props |-> f.props]

\* C18: a feature whose id is in the store with the same geometry type
\* keeps its model (none is constructed), gets the incoming properties, and
\* has its coordinates written exactly when they differ from the stored
\* ones; a feature whose id is absent or stored with another type is
\* replaced by a newly constructed model of the incoming type.  Stated for
\* collections with distinct ids, where each feature meets the store as it
\* was before the call.
C18_AddResolution ==
  \A g \in C17_WellFormed :
    LET r == api_add(Ctx, g)
    IN  (C17_DistinctIds(g) /\ r.status = "ok") =>
          \A i \in DOMAIN g.features : C18_Resolved(r.c, r.ids[i], g.features[i])

\* feature 1 is stored; one add updates it with equal coordinates and other
\* properties, another with other coordinates, another with another type
C18_Witness ==
  /\ 1 \in DOMAIN features
  /\ \E f, g, h \in C17_WellFormed :
       LET rf == api_add(Ctx, f)
           rg == api_add(Ctx, g)
           rh == api_add(Ctx, h)
       IN  /\ Len(f.features) = 1 /\ Len(g.features) = 1 /\ Len(h.features) = 1
           /\ f.features[1].id = 1 /\ g.features[1].id = 1 /\ h.features[1].id = 1
           /\ f.features[1].geom = features[1].type
           /\ f.features[1].coords = features[1].coords
           /\ f.features[1].props # features[1].props
           /\ rf.c.coordWrites = <<>> /\ rf.c.constructed = <<>>
           /\ rf.c.features[1].props = f.features[1].props
           /\ g.features[1].geom = features[1].type
           /\ g.features[1].coords # features[1].coords
           /\ rg.c.coordWrites = <<1>> /\ rg.c.constructed = <<>>
           /\ h.features[1].geom # features[1].type
           /\ rh.c.constructed = <<1>>


\* --------------------------------------------------------------- C12
\* the coordinates of the features named by ids whose type is t, in the
\* order of ids
C12_Concat(ids, t) ==
  LET F[n \in 0..Len(ids)] ==
        IF n = 0 THEN <<>>
        ELSE IF features[ids[n]].type = t THEN F[n - 1] \o features[ids[n]].coords
        ELSE F[n - 1]
  IN  F[Len(ids)]

\* C12: mergeSelectedFeatures(ids) with at least two ids, all of live
\* features, adds exactly one feature; its type is Multi<type of the first
\* input>, its coordinates are those of the inputs of the first input's
\* type in input order, its properties are empty, it is not selected, and
\* no input id is left in the store.
C12_MergeResult ==
  \A ids \in IdLists :
    (Len(ids) >= 2 /\ Range(ids) \subseteq DOMAIN features) =>
      LET r == api_mergeSelectedFeatures(Ctx, ids)
          new == DOMAIN r.c.features \ DOMAIN features
          t == features[ids[1]].type
      IN  r.status # "nohat" =>
            /\ r.status = "ok"
            /\ Cardinality(new) = 1
            /\ DOMAIN r.c.features = (DOMAIN features \ Range(ids)) \cup new
            /\ \A n \in new :
                 /\ r.c.features[n] = [type |-> "Multi" \o t,
                                       coords |-> C12_Concat(ids, t),
                                       props |-> 0]
                 /\ n \notin r.c.selected


\* --------------------------------------------------------------- C14
\* the composite features of the store among ids
C14_Composites(ids) ==
  {i \in Range(ids) \cap DOMAIN features : IsMulti(features[i].type)}

\* type and coordinates of the parts of the composites named by ids, in the
\* order of ids and, within a composite, of its parts
C14_Parts(ids) ==
  LET F[n \in 0..Len(ids)] ==
        IF n = 0 THEN <<>>
        ELSE IF ids[n] \in C14_Composites(ids)
        THEN F[n - 1] \o [k \in 1..Len(features[ids[n]].coords) |->
                            <<BaseType(features[ids[n]].type),
                              <<features[ids[n]].coords[k]>> >>]
        ELSE F[n - 1]
  IN  F[Len(ids)]

\* C14: splitSelectedFeatures(ids) removes every composite named by ids and
\* puts one new single-part feature per part in its place, in part order;
\* ids of single-part features or of nothing are ignored without error and
\* every other feature stays as it was.
C14_SplitEffect ==
  \A ids \in IdLists :
    LET r == api_splitSelectedFeatures(Ctx, ids)
        new == DOMAIN r.c.features \ DOMAIN features
        parts == r.c.created[1]
    IN  r.status # "nohat" =>
          /\ r.status = "ok"
          /\ DOMAIN r.c.features = (DOMAIN features \ C14_Composites(ids)) \cup new
          /\ \A i \in DOMAIN features \ C14_Composites(ids) :
               r.c.features[i] = features[i]
          /\ new = {parts[k].id : k \in DOMAIN parts}
          /\ \A k \in DOMAIN parts :
               /\ r.c.features[parts[k].id].type = parts[k].type
               /\ r.c.features[parts[k].id].coords = parts[k].coords
          /\ (\A i, j \in DOMAIN ids : i # j => ids[i] # ids[j]) =>
               /\ [k \in DOMAIN parts |-> <<parts[k].type, parts[k].coords>>]
                    = C14_Parts(ids)
               /\ Cardinality(new) = Len(parts)

\* a composite of two different parts is named together with an id of
\* nothing: the composite is replaced by its two parts
C14_Witness ==
  \E ids \in IdLists :
    LET r == api_splitSelectedFeatures(Ctx, ids)
    IN  /\ Len(ids) = 2
        /\ ids[1] \in DOMAIN features
        /\ ids[2] \notin DOMAIN features
        /\ IsMulti(features[ids[1]].type)
        /\ Len(features[ids[1]].coords) = 2
        /\ features[ids[1]].coords[1] # features[ids[1]].coords[2]
        /\ r.status = "ok"
        /\ ids[1] \notin DOMAIN r.c.features
        /\ Cardinality(DOMAIN r.c.features) = Cardinality(DOMAIN features) + 1


\* --------------------------------------------------------------- C15
\* id lists naming N >= 2 different live single-part features of one type
C15_Inputs ==
  {ids \in IdLists :
     /\ Len(ids) >= 2
     /\ \A i, j \in DOMAIN ids : i # j => ids[i] # ids[j]
     /\ Range(ids) \subseteq DOMAIN features
     /\ \A i \in DOMAIN ids : /\ ~IsMulti(features[ids[i]].type)
                              /\ features[ids[i]].type = features[ids[1]].type}

\* merging ids and splitting the composite gives Len(ids) single-part
\* features in place of the inputs, with the inputs' coordinates in order
C15_RoundTrip(ids) ==
  LET r1 == api_mergeSelectedFeatures(Ctx, ids)
      m == r1.c.created[1][1].id
      r2 == api_splitSelectedFeatures(NextCall(r1.c), <<m>>)
      parts == r2.c.created[1]
  IN  /\ r1.status # "nohat" => r1.status = "ok"
      /\ (r1.status = "ok" /\ r2.status # "nohat") =>
           /\ r2.status = "ok"
           /\ Len(parts) = Len(ids)
           /\ \A k \in DOMAIN parts :
                /\ parts[k].type = features[ids[k]].type
                /\ parts[k].coords = features[ids[k]].coords
                /\ r2.c.features[parts[k].id].type = parts[k].type
                /\ r2.c.features[parts[k].id].coords = parts[k].coords
                /\ \A j \in DOMAIN parts : j # k => parts[j].id # parts[k].id
           /\ DOMAIN r2.c.features =
                (DOMAIN features \ Range(ids)) \cup {parts[k].id : k \in DOMAIN parts}

\* C15: for N >= 2 live single-part features of the same type, merge
\* followed by split of the resulting composite leaves N single-part
\* features in its place whose coordinates, in order, are those of the
\* original features.
C15_MergeSplitInverse == \A ids \in C15_Inputs : C15_RoundTrip(ids)

\* two points with different coordinates, merged and split again
C15_Witness ==
  \E ids \in C15_Inputs :
    LET r1 == api_mergeSelectedFeatures(Ctx, ids)
        r2 == api_splitSelectedFeatures(NextCall(r1.c), <<r1.c.created[1][1].id>>)
    IN  /\ features[ids[1]].coords # features[ids[2]].coords
        /\ r1.status = "ok"
        /\ r2.status = "ok"
        /\ Len(r2.c.created[1]) = Len(ids)
        /\ r2.c.created[1][1].coords = features[ids[1]].coords


\* --------------------------------------------------------------- C16
\* C16: a mergeSelectedFeatures call that merges fires CREATE exactly once,
\* with the GeoJSON form of the new composite and nothing else; every
\* splitSelectedFeatures call fires CREATE exactly once, with exactly the
\* single-part features the call created.
C16_CreationNotifications ==
  \A ids \in IdLists :
    LET rm == api_mergeSelectedFeatures(Ctx, ids)
        rs == api_splitSelectedFeatures(Ctx, ids)
        newM == DOMAIN rm.c.features \ DOMAIN features
        newS == DOMAIN rs.c.features \ DOMAIN features
    IN  /\ (rm.status = "ok" /\ Len(ids) >= 2) =>
             /\ Len(rm.c.created) = 1
             /\ Len(rm.c.created[1]) = 1
             /\ rm.c.created[1][1].id \in newM
             /\ rm.c.created[1][1] =
                  toGeoJSON(rm.c.created[1][1].id,
                            rm.c.features[rm.c.created[1][1].id])
        /\ rs.status = "ok" =>
             /\ Len(rs.c.created) = 1
             /\ Range(rs.c.created[1]) =
                  {toGeoJSON(i, rs.c.features[i]) : i \in newS}

\* one id list that merges two features, and one that splits a composite of
\* two parts: one notification each, of one and of two features
C16_Witness ==
  /\ \E ids \in IdLists :
       LET rm == api_mergeSelectedFeatures(Ctx, ids)
       IN  /\ Len(ids) >= 2
           /\ rm.status = "ok"
           /\ Len(rm.c.created) = 1
           /\ IsMulti(rm.c.created[1][1].type)
  /\ \E ids \in IdLists :
       LET rs == api_splitSelectedFeatures(Ctx, ids)
       IN  /\ rs.status = "ok"
           /\ Len(rs.c.created) = 1
           /\ Len(rs.c.created[1]) = 2


====
